---- MODULE Spec2Model ----
(***************************************************************************)
(* Diagram service of uml-diagramming: metadata rows in a relational       *)
(* table (UMLDiagramDB, diagram/models.py), payload documents in a MinIO   *)
(* bucket (diagram/storage.py), and the coordinator that sequences the two *)
(* stores for create / get / list / update / delete.                       *)
(*                                                                         *)
(* diagram/storage.py and diagram/models.py are modelled from their code.  *)
(* The request handlers (diagram/main.py) are not among the source files:  *)
(* the coordinator's steps follow spec.md section 4.4 and the two tests    *)
(* that pin its calls down (diagram/test_main.py).                         *)
(*                                                                         *)
(* Store calls: a call that raises has no effect on the store.  Metadata   *)
(* reads (getById, listAll) answer; metadata writes and every blob call    *)
(* may fail.                                                               *)
(*                                                                         *)
(* Three specifications:                                                   *)
(*   Spec         requests served one after another by one worker;         *)
(*   SpecConc     two workers, one request each, sub-steps interleaved,    *)
(*                starting from a service that holds 0..MaxIds diagrams;   *)
(*   SpecGateway  the API gateway (gateway/main.py) forwarding to a        *)
(*                diagram service that answers in any way.                 *)
(***************************************************************************)
EXTENDS Integers, Sequences, FiniteSets, TLC

\* ------------------------------------------------------------------ bounds
\* Number of identifiers uuid4 hands out in a run (creates are capped by it).
MaxIds == 2
\* Largest value of the clock read by datetime.utcnow.
MaxClock == 1

\* ------------------------------------------------------------------ inputs
Procs == {1, 2}
Ids == 1..MaxIds
Names == {"n1", "n2"}
Owners == {"u1", "u2"}
\* Payload documents: a dict as its sequence of <<key, value>> items.
Docs == { << <<"type", "class">> >>,
          << <<"type", "sequence">>, <<"steps", "a">> >> }

None == {}
Some(x) == {x}
The(o) == CHOOSE x \in o : TRUE

\* ------------------------------------------------------------ storage.py
MINIO_BUCKET_NAME == "uml-diagrams"

\* What the MinIO library call itself may raise besides NoSuchKey.
Faults == {"none", "S3Error", "Exception"}

\* Mutant: the location leaves the bucket out.
S3UriNoBucket(object_name) == <<"s3://", object_name>>

\* f"s3://{MINIO_BUCKET_NAME}/{object_name}"
S3Uri(object_name) == <<"s3://", MINIO_BUCKET_NAME, "/", object_name>>

\* One call of the blob client: the store after it, what the library raised,
\* what the client function raised ("ok": it returned), and its return value.
Call(store, raised, outcome, value) ==
    [store |-> store, raised |-> raised, outcome |-> outcome, value |-> value]

\* Mutant: put_object is given a length one short, the object is cut.
upload_truncated(client, store, object_name, data, fault) ==
    IF client = "None"
    THEN Call(store, "none", "ConnectionError", <<>>)
    ELSE IF fault = "none"
         THEN Call([k \in DOMAIN store \cup {object_name} |->
                        IF k = object_name THEN SubSeq(data, 1, Len(data) - 1)
                        ELSE store[k]],
                   "none", "ok", S3Uri(object_name))
         ELSE Call(store, fault, fault, <<>>)

\* Mutant: every upload goes to a new object name (a versioned key).
upload_renames(client, store, object_name, data, fault) ==
    IF client = "None"
    THEN Call(store, "none", "ConnectionError", <<>>)
    ELSE IF fault = "none"
         THEN Call([k \in DOMAIN store \cup {Append(object_name, "+")} |->
                        IF k = Append(object_name, "+") THEN data ELSE store[k]],
                   "none", "ok", S3Uri(Append(object_name, "+")))
         ELSE Call(store, fault, fault, <<>>)

\* Mutant: an error of put_object is printed and not raised again.
upload_swallows(client, store, object_name, data, fault) ==
    IF client = "None"
    THEN Call(store, "none", "ConnectionError", <<>>)
    ELSE IF fault = "none"
         THEN Call([k \in DOMAIN store \cup {object_name} |->
                        IF k = object_name THEN data ELSE store[k]],
                   "none", "ok", S3Uri(object_name))
         ELSE Call(store, fault, "ok", S3Uri(object_name))

upload_diagram_payload(client, store, object_name, data, fault) ==
    IF client = "None"
    THEN Call(store, "none", "ConnectionError", <<>>)
    ELSE IF fault = "none"
         THEN Call([k \in DOMAIN store \cup {object_name} |->
                        IF k = object_name THEN data ELSE store[k]],
                   "none", "ok", S3Uri(object_name))
         ELSE Call(store, fault, fault, <<>>)

\* Mutant: a get that returns the object also removes it from the bucket.
get_consumes_object(client, store, object_name, fault) ==
    IF client = "None"
    THEN Call(store, "none", "ConnectionError", <<>>)
    ELSE IF fault = "none"
         THEN IF object_name \in DOMAIN store
              THEN Call([k \in DOMAIN store \ {object_name} |-> store[k]],
                        "none", "ok", store[object_name])
              ELSE Call(store, "NoSuchKey", "FileNotFoundError", <<>>)
         ELSE Call(store, fault, fault, <<>>)

\* Mutant: a missing object is answered with empty bytes instead of raising.
get_empty_when_missing(client, store, object_name, fault) ==
    IF client = "None"
    THEN Call(store, "none", "ConnectionError", <<>>)
    ELSE IF fault = "none"
         THEN IF object_name \in DOMAIN store
              THEN Call(store, "none", "ok", store[object_name])
              ELSE Call(store, "NoSuchKey", "ok", <<>>)
         ELSE Call(store, fault, fault, <<>>)

\* Mutant: no NoSuchKey case, the S3Error of a missing object is raised again.
get_reraises_missing(client, store, object_name, fault) ==
    IF client = "None"
    THEN Call(store, "none", "ConnectionError", <<>>)
    ELSE IF fault = "none"
         THEN IF object_name \in DOMAIN store
              THEN Call(store, "none", "ok", store[object_name])
              ELSE Call(store, "NoSuchKey", "S3Error", <<>>)
         ELSE Call(store, fault, fault, <<>>)

get_diagram_payload(client, store, object_name, fault) ==
    IF client = "None"
    THEN Call(store, "none", "ConnectionError", <<>>)
    ELSE IF fault = "none"
         THEN IF object_name \in DOMAIN store
              THEN Call(store, "none", "ok", store[object_name])
              ELSE Call(store, "NoSuchKey", "FileNotFoundError", <<>>)
         ELSE Call(store, fault, fault, <<>>)

\* Mutant: the delete reports success and removes nothing.
delete_keeps_object(client, store, object_name, fault) ==
    IF client = "None"
    THEN Call(store, "none", "ConnectionError", <<>>)
    ELSE IF fault = "none"
         THEN Call(store, "none", "ok", <<>>)
         ELSE Call(store, fault, fault, <<>>)

\* Mutant: the delete empties the bucket.
delete_clears_bucket(client, store, object_name, fault) ==
    IF client = "None"
    THEN Call(store, "none", "ConnectionError", <<>>)
    ELSE IF fault = "none"
         THEN Call(<<>>, "none", "ok", <<>>)
         ELSE Call(store, fault, fault, <<>>)

\* Mutant: removing a key that holds nothing raises S3Error.
delete_raises_when_absent(client, store, object_name, fault) ==
    IF client = "None"
    THEN Call(store, "none", "ConnectionError", <<>>)
    ELSE IF fault = "none"
         THEN IF object_name \in DOMAIN store
              THEN Call([k \in DOMAIN store \ {object_name} |-> store[k]],
                        "none", "ok", <<>>)
              ELSE Call(store, "S3Error", "S3Error", <<>>)
         ELSE Call(store, fault, fault, <<>>)

\* remove_object answers without error for a key that holds nothing.
delete_diagram_payload(client, store, object_name, fault) ==
    IF client = "None"
    THEN Call(store, "none", "ConnectionError", <<>>)
    ELSE IF fault = "none"
         THEN Call([k \in DOMAIN store \ {object_name} |-> store[k]],
                   "none", "ok", <<>>)
         ELSE Call(store, fault, fault, <<>>)

\* ------------------------------------------------------------- models.py
\* UMLDiagramDB(...): created_at and updated_at each come from their own
\* default_factory call of datetime.utcnow (t1, then t2).
UMLDiagramDB(id, name, owner_id, payload_url, t1, t2) ==
    [id |-> id, name |-> name, owner_id |-> owner_id,
     payload_url |-> payload_url, created_at |-> t1, updated_at |-> t2]

\* UMLDiagramResponse of one row with its payload (single-item responses).
UMLDiagramResponse(r, payload) ==
    [id |-> r.id, name |-> r.name, owner_id |-> r.owner_id,
     payload_url |-> r.payload_url, created_at |-> r.created_at,
     updated_at |-> r.updated_at, payload |-> payload]

\* ------------------------------------------------- coordinator helpers
\* Key generator: f"{diagram_id}.json".
ObjectName(id) == <<id, ".json">>

\* The object key is the last path segment of the stored location.
KeyOfUrl(url) == url[Len(url)]

\* json.dumps(payload).encode("utf-8"), as the token sequence of the text.
RECURSIVE DumpItems(_)
DumpItems(d) ==
    IF d = <<>> THEN <<>>
    ELSE <<d[1][1], ":", d[1][2]>> \o
         (IF Len(d) > 1 THEN <<",">> \o DumpItems(Tail(d)) ELSE <<>>)

json_dumps(d) == <<"{">> \o DumpItems(d) \o <<"}">>

\* json.loads(data.decode("utf-8")).
RECURSIVE LoadItems(_)
LoadItems(s) ==
    IF Len(s) < 3 THEN <<>>
    ELSE << <<s[1], s[3]>> >> \o
         (IF Len(s) > 4 THEN LoadItems(SubSeq(s, 5, Len(s))) ELSE <<>>)

json_loads(s) == LoadItems(SubSeq(s, 2, Len(s) - 1))

\* ------------------------------------------------------------------ state
VARIABLES
    minio_client,   \* storage.py's module-level client: "client", or "None"
    blobs,          \* the bucket: object name -> bytes, for the names that exist
    rows,           \* the umldiagramdb table: id -> row, for the ids that exist
    nextId,         \* the next identifier uuid4 returns
    now,            \* the clock
    pc,             \* per request: "idle", the sub-step it is about to take, or
                    \*   "done" (the operation has ended, its result is returned)
    op,             \* per request: the operation and its arguments
    row,            \* per request: the row it fetched or wrote (None or Some)
    ret,            \* per request: what upload_diagram_payload returned
    result,         \* per request: what the last finished operation returned
    trace,          \* per request: the store calls of the operation, in order
    last,           \* history: id -> the create or payload update that completed
                    \*   on it, while no later write or delete has touched the id
    deleted,        \* history: <<id, key>> of each delete that returned success
    orphaned,       \* history: the keys whose compensating delete failed
    gw              \* the gateway (gateway/main.py): the request it is serving

vars == <<minio_client, blobs, rows, nextId, now, pc, op, row, ret, result,
          trace, last, deleted, orphaned, gw>>

NoOp == [kind |-> "none", id |-> 0, name |-> None, payload |-> None,
         owner_id |-> None]
NoResult == [kind |-> "none", body |-> <<>>, comp |-> "none"]
NoLast == [by |-> "none", name |-> "", payload |-> <<>>, owner_id |-> "",
           key |-> <<>>]

Result(kind, body, comp) == [kind |-> kind, body |-> body, comp |-> comp]

\* One store call in a request's trace.
Entry(call, key, c) ==
    [call |-> call, key |-> key, raised |-> c.raised, outcome |-> c.outcome]

\* A metadata write: it commits ("ok") or raises ("err").
DbFaults == {"none", "err"}

DbEntry(call, id, f) ==
    [call |-> call, key |-> <<id>>,
     raised |-> IF f = "none" THEN "none" ELSE "SQLAlchemyError",
     outcome |-> IF f = "none" THEN "ok" ELSE "SQLAlchemyError"]

\* The gateway between two requests.
GwIdle == [pc |-> "idle", handler |-> "none", request |-> <<>>, sent |-> <<>>,
           response |-> <<>>, out |-> <<>>]

\* datetime.utcnow(): the clock as it stands, or after it has moved on.
Utcnow == {t \in {now, now + 1} : t <= MaxClock}

Init ==
    /\ minio_client \in {"client", "None"}
    /\ blobs = <<>>
    /\ rows = <<>>
    /\ nextId = 1
    /\ now = 0
    /\ pc = [p \in Procs |-> "idle"]
    /\ op = [p \in Procs |-> NoOp]
    /\ row = [p \in Procs |-> None]
    /\ ret = [p \in Procs |-> <<>>]
    /\ result = [p \in Procs |-> NoResult]
    /\ trace = [p \in Procs |-> <<>>]
    /\ last = [i \in Ids |-> NoLast]
    /\ deleted = {}
    /\ orphaned = {}
    /\ gw = GwIdle

\* Mutant: an id without a row is answered with success and no body.
MissingOk == Result("Ok", <<>>, "none")

\* What get, update and delete return for an id that has no metadata row.
Missing == Result("NotFound", <<>>, "none")

\* The request ends: its result is returned and its locals are dropped.
Finish(p, r) ==
    /\ pc' = [pc EXCEPT ![p] = "done"]
    /\ result' = [result EXCEPT ![p] = r]
    /\ row' = [row EXCEPT ![p] = None]
    /\ ret' = [ret EXCEPT ![p] = <<>>]

\* The request goes on to sub-step `next`, holding row r and location url.
Goto(p, next, r, url) ==
    /\ pc' = [pc EXCEPT ![p] = next]
    /\ result' = [result EXCEPT ![p] = NoResult]
    /\ row' = [row EXCEPT ![p] = r]
    /\ ret' = [ret EXCEPT ![p] = url]

\* --------------------------------------------------------------- create
\* Steps 1 and 2: generate the identifier and the key, serialize the payload
\* and write it to the bucket.
CreatePut(p) ==
    /\ pc[p] = "idle"
    /\ nextId <= MaxIds
    /\ \E name \in Names, payload \in Docs, owner_id \in Owners, fault \in Faults :
         LET id == nextId
             c == upload_diagram_payload(minio_client, blobs, ObjectName(id),
                                         json_dumps(payload), fault)
         IN /\ nextId' = nextId + 1
            /\ op' = [op EXCEPT ![p] = [kind |-> "create", id |-> id,
                                        name |-> Some(name),
                                        payload |-> Some(payload),
                                        owner_id |-> Some(owner_id)]]
            /\ trace' = [trace EXCEPT ![p] = <<Entry("put", ObjectName(id), c)>>]
            /\ blobs' = c.store
            /\ IF c.outcome = "ok"
               THEN Goto(p, "c_insert", None, c.value)
               ELSE Finish(p, Result("StorageUnavailable", <<>>, "none"))
    /\ UNCHANGED <<gw, orphaned, minio_client, rows, now, last, deleted>>

\* Step 3: insert the metadata row that references the key.
CreateInsert(p) ==
    /\ pc[p] = "c_insert"
    /\ \E f \in DbFaults, t1 \in Utcnow :
       \E t2 \in {t \in {t1, t1 + 1} : t <= MaxClock} :
         LET o == op[p]
             r == UMLDiagramDB(o.id, The(o.name), The(o.owner_id), ret[p], t1, t2)
         IN /\ now' = t2
            /\ trace' = [trace EXCEPT ![p] = Append(@, DbEntry("insert", o.id, f))]
            /\ IF f = "none" /\ o.id \notin DOMAIN rows
               THEN /\ rows' = [i \in DOMAIN rows \cup {o.id} |->
                                   IF i = o.id THEN r ELSE rows[i]]
                    /\ last' = [last EXCEPT ![o.id] =
                                   [by |-> "create", name |-> The(o.name),
                                    payload |-> The(o.payload),
                                    owner_id |-> The(o.owner_id),
                                    key |-> trace[p][1].key]]
                    /\ Finish(p, Result("Ok",
                                  <<UMLDiagramResponse(r, The(o.payload))>>, "none"))
               ELSE /\ UNCHANGED <<rows, last>>
                    /\ Goto(p, "c_comp", None, ret[p])
    /\ UNCHANGED <<gw, orphaned, minio_client, blobs, nextId, op, deleted>>

\* Mutant: a compensation that raises replaces the insert's error.
CompensatedMasked(outcome) ==
    IF outcome = "ok" THEN Result("RepositoryError", <<>>, "ok")
    ELSE Result("StorageUnavailable", <<>>, "failed")

\* What a create whose insert failed returns, given the compensating
\* delete's outcome: the insert's error, the compensation reported beside it.
Compensated(outcome) ==
    Result("RepositoryError", <<>>, IF outcome = "ok" THEN "ok" ELSE "failed")

\* The insert failed: delete the blob just written (best effort) and return
\* the insert's error.
CreateCompensate(p) ==
    /\ pc[p] = "c_comp"
    /\ \E fault \in Faults :
         LET key == KeyOfUrl(ret[p])
             c == delete_diagram_payload(minio_client, blobs, key, fault)
         IN /\ blobs' = c.store
            /\ trace' = [trace EXCEPT ![p] = Append(@, Entry("delete", key, c))]
            /\ orphaned' = IF c.outcome = "ok" THEN orphaned
                            ELSE orphaned \cup {key}
            /\ Finish(p, Compensated(c.outcome))
    /\ UNCHANGED <<gw, minio_client, rows, nextId, now, op, last, deleted>>

\* ------------------------------------------------------------- read-one
\* The coordinator's kind for a failed blob get.
GetFailure(outcome) ==
    IF outcome = "FileNotFoundError" THEN "IntegrityError"
    ELSE "StorageUnavailable"

\* Fetch the metadata row by id; no row: NotFound.
GetFetch(p) ==
    /\ pc[p] = "idle"
    /\ \E id \in Ids :
         /\ op' = [op EXCEPT ![p] = [NoOp EXCEPT !.kind = "get", !.id = id]]
         /\ trace' = [trace EXCEPT ![p] = <<>>]
         /\ IF id \in DOMAIN rows
            THEN Goto(p, "g_blob", Some(rows[id]), <<>>)
            ELSE Finish(p, Missing)
    /\ UNCHANGED <<gw, orphaned, minio_client, blobs, rows, nextId, now, last, deleted>>

\* Fetch the blob by the stored key, deserialize, merge.
GetBlob(p) ==
    /\ pc[p] = "g_blob"
    /\ \E fault \in Faults :
         LET r == The(row[p])
             key == KeyOfUrl(r.payload_url)
             c == get_diagram_payload(minio_client, blobs, key, fault)
         IN /\ blobs' = c.store
            /\ trace' = [trace EXCEPT ![p] = Append(@, Entry("get", key, c))]
            /\ IF c.outcome = "ok"
               THEN Finish(p, Result("Ok",
                              <<UMLDiagramResponse(r, json_loads(c.value))>>, "none"))
               ELSE Finish(p, Result(GetFailure(c.outcome), <<>>, "none"))
    /\ UNCHANGED <<gw, orphaned, minio_client, rows, nextId, now, op, last, deleted>>

\* ------------------------------------------------------------ read-many
\* The orders in which the ids of a set can come back.
Orders(S) ==
    {s \in [1..Cardinality(S) -> S] : \A i, j \in DOMAIN s : i # j => s[i] # s[j]}

\* Mutant: each row goes out as a UMLDiagramResponse with its payload unset.
ListRowsAsResponse(table, order) ==
    [i \in DOMAIN order |-> UMLDiagramResponse(table[order[i]], None)]

\* The rows a listing returns: one per id of `order`, as stored (no payload).
ListRows(table, order) == [i \in DOMAIN order |-> table[order[i]]]

\* Fetch all metadata rows; no blob is fetched.
ListDiagrams(p) ==
    /\ pc[p] = "idle"
    /\ \E order \in Orders(DOMAIN rows) :
         /\ op' = [op EXCEPT ![p] = [NoOp EXCEPT !.kind = "list"]]
         /\ trace' = [trace EXCEPT ![p] = <<>>]
         /\ Finish(p, Result("Ok", ListRows(rows, order), "none"))
    /\ UNCHANGED <<gw, orphaned, minio_client, blobs, rows, nextId, now, last, deleted>>

\* --------------------------------------------------------------- update
\* UpdateDiagramRequest: name and payload, each optional.  Fetch the row by
\* id; no row: NotFound.
UpdFetch(p) ==
    /\ pc[p] = "idle"
    /\ \E id \in Ids, name \in {None} \cup {Some(n) : n \in Names},
          payload \in {None} \cup {Some(d) : d \in Docs} :
         /\ op' = [op EXCEPT ![p] = [NoOp EXCEPT !.kind = "update", !.id = id,
                                      !.name = name, !.payload = payload]]
         /\ trace' = [trace EXCEPT ![p] = <<>>]
         /\ IF id \in DOMAIN rows
            THEN Goto(p, IF payload # None THEN "u_put" ELSE "u_commit",
                      Some(rows[id]), rows[id].payload_url)
            ELSE Finish(p, Missing)
    /\ UNCHANGED <<gw, orphaned, minio_client, blobs, rows, nextId, now, last, deleted>>

\* A payload was given: overwrite the blob at the row's key; a failure aborts
\* before the metadata is touched.
UpdPut(p) ==
    /\ pc[p] = "u_put"
    /\ \E fault \in Faults :
         LET o == op[p]
             key == KeyOfUrl(The(row[p]).payload_url)
             c == upload_diagram_payload(minio_client, blobs, key,
                                         json_dumps(The(o.payload)), fault)
         IN /\ blobs' = c.store
            /\ trace' = [trace EXCEPT ![p] = Append(@, Entry("put", key, c))]
            /\ last' = [last EXCEPT ![o.id] = NoLast]
            /\ IF c.outcome = "ok"
               THEN Goto(p, "u_commit", row[p], c.value)
               ELSE Finish(p, Result("StorageUnavailable", <<>>, "none"))
    /\ UNCHANGED <<gw, orphaned, minio_client, rows, nextId, now, op, deleted>>

\* Mutant: the update stamps created_at as well.
UpdatedStampsBoth(r, o, url, t) ==
    [r EXCEPT !.name = IF o.name # None THEN The(o.name) ELSE @,
              !.payload_url = IF o.payload # None THEN url ELSE @,
              !.created_at = t,
              !.updated_at = t]

\* The row as the update leaves it: the name if one was given, the location
\* the upload returned if a payload was given, updated_at bumped to t.
Updated(r, o, url, t) ==
    [r EXCEPT !.name = IF o.name # None THEN The(o.name) ELSE @,
              !.payload_url = IF o.payload # None THEN url ELSE @,
              !.updated_at = t]

\* Bump updated_at and commit the row; the commit fails when the row is gone.
UpdCommit(p) ==
    /\ pc[p] = "u_commit"
    /\ \E f \in DbFaults, t \in Utcnow :
         LET o == op[p]
             done == f = "none" /\ o.id \in DOMAIN rows
             r == Updated(rows[o.id], o, ret[p], t)
         IN /\ now' = t
            /\ trace' = [trace EXCEPT ![p] =
                   Append(@, DbEntry("commit", o.id, IF done THEN "none" ELSE "err"))]
            /\ IF done
               THEN /\ rows' = [rows EXCEPT ![o.id] = r]
                    /\ IF o.payload # None
                       THEN /\ last' = [last EXCEPT ![o.id] =
                                   [by |-> "update", name |-> r.name,
                                    payload |-> The(o.payload),
                                    owner_id |-> r.owner_id,
                                    key |-> trace[p][1].key]]
                            /\ Finish(p, Result("Ok",
                                   <<UMLDiagramResponse(r, The(o.payload))>>, "none"))
                       ELSE /\ last' = [last EXCEPT ![o.id] = NoLast]
                            /\ Goto(p, "u_get", Some(r), ret[p])
               ELSE /\ UNCHANGED rows
                    /\ last' = [last EXCEPT ![o.id] = NoLast]
                    /\ Finish(p, Result("RepositoryError", <<>>, "none"))
    /\ UNCHANGED <<gw, orphaned, minio_client, blobs, nextId, op, deleted>>

\* No payload was given: fetch the unchanged one for the single-item response.
UpdRefetch(p) ==
    /\ pc[p] = "u_get"
    /\ \E fault \in Faults :
         LET r == The(row[p])
             key == KeyOfUrl(r.payload_url)
             c == get_diagram_payload(minio_client, blobs, key, fault)
         IN /\ blobs' = c.store
            /\ trace' = [trace EXCEPT ![p] = Append(@, Entry("get", key, c))]
            /\ IF c.outcome = "ok"
               THEN Finish(p, Result("Ok",
                              <<UMLDiagramResponse(r, json_loads(c.value))>>, "none"))
               ELSE Finish(p, Result(GetFailure(c.outcome), <<>>, "none"))
    /\ UNCHANGED <<gw, orphaned, minio_client, rows, nextId, now, op, last, deleted>>

\* --------------------------------------------------------------- delete
\* Fetch the row by id; no row: NotFound.
DelFetch(p) ==
    /\ pc[p] = "idle"
    /\ \E id \in Ids :
         /\ op' = [op EXCEPT ![p] = [NoOp EXCEPT !.kind = "delete", !.id = id]]
         /\ trace' = [trace EXCEPT ![p] = <<>>]
         /\ IF id \in DOMAIN rows
            THEN Goto(p, "d_blob", Some(rows[id]), rows[id].payload_url)
            ELSE Finish(p, Missing)
    /\ UNCHANGED <<gw, orphaned, minio_client, blobs, rows, nextId, now, last, deleted>>

\* Delete the blob at the stored key; a failure aborts before the row is
\* touched.
DelBlob(p) ==
    /\ pc[p] = "d_blob"
    /\ \E fault \in Faults :
         LET key == KeyOfUrl(The(row[p]).payload_url)
             c == delete_diagram_payload(minio_client, blobs, key, fault)
         IN /\ blobs' = c.store
            /\ trace' = [trace EXCEPT ![p] = Append(@, Entry("delete", key, c))]
            /\ last' = [last EXCEPT ![op[p].id] = NoLast]
            /\ IF c.outcome = "ok"
               THEN Goto(p, "d_row", row[p], ret[p])
               ELSE Finish(p, Result("StorageUnavailable", <<>>, "none"))
    /\ UNCHANGED <<gw, orphaned, minio_client, rows, nextId, now, op, deleted>>

\* Delete the metadata row (deleting a row that is gone is no error).
DelRow(p) ==
    /\ pc[p] = "d_row"
    /\ \E f \in DbFaults :
         LET id == op[p].id
             key == trace[p][1].key
         IN /\ trace' = [trace EXCEPT ![p] = Append(@, DbEntry("delete_row", id, f))]
            /\ IF f = "none"
               THEN /\ rows' = [i \in DOMAIN rows \ {id} |-> rows[i]]
                    /\ deleted' = deleted \cup {<<id, key>>}
                    /\ Finish(p, Result("Ok", <<>>, "none"))
               ELSE /\ UNCHANGED <<rows, deleted>>
                    /\ Finish(p, Result("RepositoryError", <<>>, "none"))
    /\ UNCHANGED <<gw, orphaned, minio_client, blobs, nextId, now, op, last>>

\* The response has gone out: the request's frame is dropped.
Return(p) ==
    /\ pc[p] = "done"
    /\ pc' = [pc EXCEPT ![p] = "idle"]
    /\ op' = [op EXCEPT ![p] = NoOp]
    /\ result' = [result EXCEPT ![p] = NoResult]
    /\ trace' = [trace EXCEPT ![p] = <<>>]
    /\ UNCHANGED <<gw, orphaned, minio_client, blobs, rows, nextId, now, row, ret, last, deleted>>

\* ------------------------------------------------------- specifications
\* One sub-step of the request worker p is serving.
Serve(p) ==
    \/ CreatePut(p)
    \/ CreateInsert(p)
    \/ CreateCompensate(p)
    \/ GetFetch(p)
    \/ GetBlob(p)
    \/ ListDiagrams(p)
    \/ UpdFetch(p)
    \/ UpdPut(p)
    \/ UpdCommit(p)
    \/ UpdRefetch(p)
    \/ DelFetch(p)
    \/ DelBlob(p)
    \/ DelRow(p)

Step(p) ==
    \/ Serve(p)
    \/ Return(p)

\* Requests served one at a time: each runs to its end before the next starts.
Next == Step(1)

Spec == Init /\ [][Next]_vars

\* The diagram an earlier create has stored under `id`.
Stored(id) == UMLDiagramDB(id, "n1", "u1", S3Uri(ObjectName(id)), 0, 0)

\* The service after n creates of {"type": "class"} have succeeded and
\* returned, with no request in flight.
InitConc ==
    /\ minio_client = "client"
    /\ \E n \in 0..MaxIds :
         /\ rows = [id \in 1..n |-> Stored(id)]
         /\ blobs = [k \in {ObjectName(id) : id \in 1..n} |->
                        json_dumps(<< <<"type", "class">> >>)]
         /\ nextId = n + 1
         /\ last = [i \in Ids |->
                       IF i <= n
                       THEN [by |-> "create", name |-> "n1",
                             payload |-> << <<"type", "class">> >>,
                             owner_id |-> "u1", key |-> ObjectName(i)]
                       ELSE NoLast]
    /\ now = 0
    /\ pc = [p \in Procs |-> "idle"]
    /\ op = [p \in Procs |-> NoOp]
    /\ row = [p \in Procs |-> None]
    /\ ret = [p \in Procs |-> <<>>]
    /\ result = [p \in Procs |-> NoResult]
    /\ trace = [p \in Procs |-> <<>>]
    /\ deleted = {}
    /\ orphaned = {}
    /\ gw = GwIdle

\* Two workers, each serving one request, their sub-steps interleaved in any
\* order.
NextConc == \E p \in Procs : Serve(p)

SpecConc == InitConc /\ [][NextConc]_vars

\* -------------------------------------------------------------- gateway
\* gateway/main.py: the API gateway in front of the diagram service.
DIAGRAM_SERVICE_URL == "http://localhost:8001"

\* The fields of the gateway's UMLDiagram model (gateway/models.py); it has
\* no payload field.
UMLDiagramFields ==
    {"id", "name", "owner_id", "payload_url", "created_at", "updated_at"}

\* The JSON bodies a client posts to create a diagram: name and payload, with
\* or without a field the gateway's request model does not declare.
CreateBodies ==
    {[name |-> n, payload |-> d] : n \in Names, d \in Docs} \cup
    {[name |-> n, payload |-> d, owner_id |-> "u1"] : n \in Names, d \in Docs}

\* The JSON bodies a client puts to update a diagram: each field may be unset.
UpdateBodies ==
    {<<>>} \cup {[name |-> n] : n \in Names} \cup {[payload |-> d] : d \in Docs}
    \cup {[name |-> n, payload |-> d] : n \in Names, d \in Docs}

\* CreateDiagramRequestFromGateway.model_dump(): the declared fields.
CreateDump(body) == [f \in {"name", "payload"} |-> body[f]]

\* UpdateDiagramRequestFromGateway.model_dump(exclude_unset=True): the
\* declared fields the client set.
UpdateDump(body) == [f \in DOMAIN body \cap {"name", "payload"} |-> body[f]]

\* What the diagram service may answer: a status with a JSON body, or no
\* answer at all (httpx.RequestError).
Reply(status, json) == [kind |-> "response", status |-> status, json |-> json]

\* The answers raise_for_status lets through.
Successes(handler) ==
    CASE handler = "get_diagrams" ->
            {Reply(200, <<>>), Reply(200, <<Stored(1)>>),
             Reply(200, <<Stored(2), Stored(1)>>)}
      [] handler = "delete_diagram" -> {Reply(200, [ok |-> TRUE])}
      [] OTHER ->
            {Reply(IF handler = "create_diagram" THEN 201 ELSE 200,
                   UMLDiagramResponse(Stored(id), d)) : id \in Ids, d \in Docs}

\* The answers raise_for_status raises HTTPStatusError for.
Failures ==
    {Reply(404, [detail |-> "Diagram not found"]),
     Reply(500, [detail |-> "Internal Server Error"])}

\* An answer whose body is not JSON: response.json() cannot parse it.
TextReply(status, text) == [kind |-> "text", status |-> status, text |-> text]

\* Error answers with a text/plain body: the 500 an ASGI server sends for an
\* exception no handler caught, and an error page of a proxy on the way.
TextFailures ==
    {TextReply(500, "Internal Server Error"), TextReply(502, "Bad Gateway")}

\* The request itself failed (httpx.RequestError).
NoReply == [kind |-> "RequestError", status |-> 0, json |-> <<>>]

\* forward_request: one client.request to the diagram service; its JSON is
\* returned, an error status or a failed request is raised as HTTPException.
\* response.json() is called in both branches and raises JSONDecodeError on a
\* body that is not JSON; no except clause catches that.
forward_request(method, path, json_data, reply) ==
    LET sent == [method |-> method, url |-> <<DIAGRAM_SERVICE_URL, path>>,
                 json |-> json_data]
    IN IF reply.kind = "RequestError"
       THEN [sent |-> <<sent>>, raised |-> "HTTPException", status_code |-> 503,
             value |-> [detail |-> "Diagram service unavailable"]]
       ELSE IF reply.kind = "text"
       THEN [sent |-> <<sent>>, raised |-> "JSONDecodeError", status_code |-> 0,
             value |-> <<>>]
       ELSE IF reply.status >= 400
       THEN [sent |-> <<sent>>, raised |-> "HTTPException",
             status_code |-> reply.status, value |-> [detail |-> reply.json]]
       ELSE [sent |-> <<sent>>, raised |-> "none", status_code |-> reply.status,
             value |-> reply.json]

\* A value returned under response_model=UMLDiagram: the model's fields.
AsUMLDiagram(v) == [f \in UMLDiagramFields |-> v[f]]

\* The handler's return value as its decorator's response_model sends it.
response_model(handler, v) ==
    CASE handler = "get_diagrams" -> [i \in DOMAIN v |-> AsUMLDiagram(v[i])]
      [] handler = "delete_diagram" -> v
      [] OTHER -> AsUMLDiagram(v)

\* The gateway's response: the HTTPException raised, the server's plain 500
\* for any other exception, or the returned value with the route's status
\* code.
GwResponse(handler, f) ==
    IF f.raised = "HTTPException"
    THEN [status_code |-> f.status_code, json |-> f.value]
    ELSE IF f.raised # "none"
    THEN [status_code |-> 500, json |-> <<>>, text |-> "Internal Server Error"]
    ELSE [status_code |-> IF handler = "create_diagram" THEN 201 ELSE 200,
          json |-> response_model(handler, f.value)]

diagram_vars == <<minio_client, blobs, rows, nextId, now, pc, op, row, ret,
                  result, trace, last, deleted, orphaned>>

\* The gateway after a handler has made its forward_request call and the
\* diagram service has answered with `reply`.
Forwarded(handler, method, path, body, json_data, reply) ==
    LET f == forward_request(method, path, json_data, reply)
    IN gw' = [pc |-> "done", handler |-> handler,
              request |-> [method |-> method, path |-> path, body |-> body],
              sent |-> f.sent, response |-> reply,
              out |-> GwResponse(handler, f)]

\* A route handler awaits forward_request and returns what that returns.
Handle(handler, method, path, body, json_data) ==
    /\ \/ \E reply \in Successes(handler) :
            Forwarded(handler, method, path, body, json_data, reply)
       \/ \E reply \in Failures :
            Forwarded(handler, method, path, body, json_data, reply)
       \/ \E reply \in TextFailures :
            Forwarded(handler, method, path, body, json_data, reply)
       \/ Forwarded(handler, method, path, body, json_data, NoReply)
    /\ UNCHANGED diagram_vars

get_diagrams ==
    /\ gw.pc = "idle"
    /\ Handle("get_diagrams", "GET", <<"/diagrams">>, <<>>, <<>>)

create_diagram ==
    /\ gw.pc = "idle"
    /\ \E body \in CreateBodies :
         Handle("create_diagram", "POST", <<"/diagrams">>, body, CreateDump(body))

get_diagram ==
    /\ gw.pc = "idle"
    /\ \E id \in Ids :
         Handle("get_diagram", "GET", <<"/diagrams/", id>>, <<>>, <<>>)

update_diagram ==
    /\ gw.pc = "idle"
    /\ \E id \in Ids, body \in UpdateBodies :
         Handle("update_diagram", "PUT", <<"/diagrams/", id>>, body,
                UpdateDump(body))

delete_diagram ==
    /\ gw.pc = "idle"
    /\ \E id \in Ids :
         Handle("delete_diagram", "DELETE", <<"/diagrams/", id>>, <<>>, <<>>)

\* The gateway's response has gone out.
GwReturn ==
    /\ gw.pc = "done"
    /\ gw' = GwIdle
    /\ UNCHANGED diagram_vars

NextGateway ==
    \/ get_diagrams
    \/ create_diagram
    \/ get_diagram
    \/ update_diagram
    \/ delete_diagram
    \/ GwReturn

SpecGateway == Init /\ [][NextGateway]_vars

\* ================================================================ claims
\* Request p has returned from an operation of kind k.
Returned(p, k) == pc[p] = "done" /\ op[p].kind = k

\* What a direct fetch of `key` from the bucket raises when the store answers.
Fetch(key) == get_diagram_payload(minio_client, blobs, key, "none").outcome

\* C1 (round trip): a create that succeeded wrote the serialized payload under
\* its key and returned its inputs; a get of that id, with no write or delete
\* of the id in between, fetches the blob under the same key and returns the
\* name, owner and payload given to create.
C1_RoundTrip ==
    \A p \in Procs :
      /\ (Returned(p, "create") /\ result[p].kind = "Ok") =>
           /\ trace[p][1].call = "put"
           /\ trace[p][1].key \in DOMAIN blobs
           /\ blobs[trace[p][1].key] = json_dumps(The(op[p].payload))
           /\ result[p].body[1].name = The(op[p].name)
           /\ result[p].body[1].owner_id = The(op[p].owner_id)
           /\ result[p].body[1].payload = The(op[p].payload)
      /\ (Returned(p, "get") /\ result[p].kind = "Ok"
             /\ last[op[p].id].by = "create") =>
           /\ result[p].body[1].id = op[p].id
           /\ result[p].body[1].name = last[op[p].id].name
           /\ result[p].body[1].owner_id = last[op[p].id].owner_id
           /\ result[p].body[1].payload = last[op[p].id].payload
           /\ trace[p] = <<[call |-> "get", key |-> last[op[p].id].key,
                            raised |-> "none", outcome |-> "ok"]>>

\* A get returned the two-item document of a diagram that a create made and
\* nothing has written since.
C1_Witness ==
    /\ Returned(1, "get") /\ result[1].kind = "Ok"
    /\ last[op[1].id].by = "create"
    /\ Len(result[1].body[1].payload) = 2

\* C2 (referential integrity): with no request in flight, every metadata row's
\* object key holds a blob.
C2_RecordHasBlob ==
    (\A p \in Procs : pc[p] \in {"idle", "done"}) =>
        \A id \in DOMAIN rows : KeyOfUrl(rows[id].payload_url) \in DOMAIN blobs

\* C3 (compensation): a create whose blob write succeeded, whose insert failed
\* and whose compensating delete succeeded leaves no row for the new id, and a
\* fetch of the generated key fails as absent.
C3_Compensation ==
    \A p \in Procs :
      (/\ Returned(p, "create") /\ Len(trace[p]) = 3
       /\ trace[p][1].call = "put" /\ trace[p][1].outcome = "ok"
       /\ trace[p][2].call = "insert" /\ trace[p][2].outcome # "ok"
       /\ trace[p][3].call = "delete" /\ trace[p][3].outcome = "ok") =>
          /\ op[p].id \notin DOMAIN rows
          /\ trace[p][3].key = trace[p][1].key
          /\ Fetch(trace[p][1].key) = "FileNotFoundError"

\* The second create of a run was compensated while the first one's diagram
\* exists.
C3_Witness ==
    /\ Returned(1, "create") /\ Len(trace[1]) = 3
    /\ trace[1][2].outcome # "ok" /\ trace[1][3].outcome = "ok"
    /\ op[1].id = 2 /\ 1 \in DOMAIN rows

\* C4 (primary error not masked): a create whose insert failed returns the
\* repository error, whether the compensating delete succeeded or raised, and
\* reports the compensation's outcome beside it.
C4_PrimaryError ==
    \A p \in Procs :
      (/\ Returned(p, "create") /\ Len(trace[p]) >= 2
       /\ trace[p][2].call = "insert" /\ trace[p][2].outcome # "ok") =>
          /\ Len(trace[p]) = 3 /\ trace[p][3].call = "delete"
          /\ result[p].kind = "RepositoryError"
          /\ result[p].comp = (IF trace[p][3].outcome = "ok" THEN "ok" ELSE "failed")

\* The insert failed and the compensating delete raised as well.
C4_Witness ==
    /\ Returned(1, "create") /\ Len(trace[1]) = 3
    /\ trace[1][2].outcome # "ok"
    /\ trace[1][3].outcome = "S3Error"
    /\ trace[1][1].key \in DOMAIN blobs

\* C5 (delete is terminal): once a delete of id returned success, id has no
\* row, a direct fetch of its former key fails as absent, and a get of id
\* returns NotFound; no later operation changes that.
C5_DeleteTerminal ==
    \A d \in deleted :
      /\ d[1] \notin DOMAIN rows
      /\ Fetch(d[2]) = "FileNotFoundError"
      /\ \A p \in Procs :
           (Returned(p, "get") /\ op[p].id = d[1]) => result[p].kind = "NotFound"

\* A get of a deleted id has returned, after a later create made another
\* diagram.
C5_Witness ==
    /\ Returned(1, "get") /\ result[1].kind = "NotFound"
    /\ \E d \in deleted : d[1] = op[1].id
    /\ DOMAIN rows # {}

\* The blob-store calls in a request's trace.
BlobCalls(p) == SelectSeq(trace[p], LAMBDA e : e.call \in {"put", "get", "delete"})

\* Request p takes a step.
Moves(p) ==
    <<pc[p], op[p], result[p], trace[p]>>' # <<pc[p], op[p], result[p], trace[p]>>

\* A payload overwrite puts no object under any key but the row's.
C6_PutStep(p) ==
    (pc[p] = "u_put" /\ Moves(p)) =>
        /\ DOMAIN blobs' \subseteq
               DOMAIN blobs \cup {KeyOfUrl(rows[op[p].id].payload_url)}
        /\ Len(BlobCalls(p)') = 1

\* The commit that ends a successful update with a payload.
C6_CommitStep(p) ==
    (pc[p] = "u_commit" /\ pc'[p] = "done" /\ result'[p].kind = "Ok") =>
        LET id == op[p].id
            key == KeyOfUrl(rows[id].payload_url)
        IN /\ rows'[id].payload_url = rows[id].payload_url
           /\ result'[p].body[1].payload_url = rows[id].payload_url
           /\ BlobCalls(p)' = <<[call |-> "put", key |-> key,
                                 raised |-> "none", outcome |-> "ok"]>>
           /\ DOMAIN blobs' = DOMAIN blobs
           /\ blobs'[key] = json_dumps(The(op[p].payload))

\* A get of a diagram whose last write was a successful payload update.
C6_ThenGet(p) ==
    (Returned(p, "get") /\ result[p].kind = "Ok"
        /\ last[op[p].id].by = "update") =>
          /\ result[p].body[1].payload = last[op[p].id].payload
          /\ result[p].body[1].payload_url = rows[op[p].id].payload_url
          /\ trace[p][1].key = last[op[p].id].key

\* C6 (update preserves key): a successful update with a payload leaves the
\* row's location reference as it was, has written the new payload under that
\* same key with one put, adds no object to the bucket, and a following get
\* returns the new payload from that key.
C6_UpdatePreservesKey ==
    /\ [][\A p \in Procs : C6_PutStep(p) /\ C6_CommitStep(p)]_vars
    /\ [](\A p \in Procs : C6_ThenGet(p))

\* A get returned the payload a successful update wrote, which is not the
\* payload the diagram was created with.
C6_Witness ==
    /\ Returned(1, "get") /\ result[1].kind = "Ok"
    /\ last[op[1].id].by = "update"
    /\ result[1].body[1].payload = last[op[1].id].payload
    /\ rows[op[1].id].created_at < rows[op[1].id].updated_at

\* C7 (list): a listing returns one entry for each metadata row that exists,
\* none twice and none for an id without a row, each entry being that row, and
\* no entry has a payload field.
C7_ListExact ==
    \A p \in Procs :
      Returned(p, "list") =>
        /\ result[p].kind = "Ok"
        /\ Len(result[p].body) = Cardinality(DOMAIN rows)
        /\ {result[p].body[i].id : i \in DOMAIN result[p].body} = DOMAIN rows
        /\ \A i \in DOMAIN result[p].body :
             /\ result[p].body[i] = rows[result[p].body[i].id]
             /\ "payload" \notin DOMAIN result[p].body[i]

\* A listing of two rows returned them in descending order of id.
C7_Witness ==
    /\ Returned(1, "list")
    /\ Len(result[1].body) = 2
    /\ result[1].body[1].id = 2

\* Request p starts a get, an update or a delete of an id that has no row.
C8_StartsOnMissing(p) ==
    /\ pc[p] = "idle" /\ Moves(p)
    /\ op'[p].kind \in {"get", "update", "delete"}
    /\ op'[p].id \notin DOMAIN rows

\* C8 (missing id): a get, update or delete of an id that has no metadata row
\* ends at once with NotFound, has made no blob-store call, and leaves the
\* table and the bucket as they were.
C8_MissingIsNotFound ==
    [][\A p \in Procs :
         C8_StartsOnMissing(p) =>
           /\ pc'[p] = "done"
           /\ result'[p].kind = "NotFound"
           /\ trace'[p] = <<>>
           /\ UNCHANGED <<rows, blobs>>]_vars

\* A delete of an id without a row returned NotFound while another diagram
\* exists with its blob.
C8_Witness ==
    /\ Returned(1, "delete") /\ result[1].kind = "NotFound"
    /\ DOMAIN rows # {} /\ DOMAIN blobs # {}
    /\ op[1].id \notin DOMAIN rows

\* C9 (integrity error): a get whose row exists and whose blob is absent ends
\* with IntegrityError, not with the NotFound of an id without a row; the blob
\* client raises FileNotFoundError for the absent key and raises every other
\* store error as it came.
C9_IntegrityError ==
    \A p \in Procs :
      /\ Returned(p, "get") =>
           /\ (trace[p] = <<>>) <=> (result[p].kind = "NotFound")
           /\ (trace[p] # <<>> /\ trace[p][1].raised = "NoSuchKey") <=>
                  (result[p].kind = "IntegrityError")
           /\ result[p].kind = "IntegrityError" =>
                  /\ op[p].id \in DOMAIN rows
                  /\ trace[p][1].key \notin DOMAIN blobs
      /\ \A i \in DOMAIN trace[p] :
           trace[p][i].call = "get" =>
             /\ trace[p][i].raised = "NoSuchKey" =>
                    trace[p][i].outcome = "FileNotFoundError"
             /\ trace[p][i].raised \in {"S3Error", "Exception"} =>
                    trace[p][i].outcome = trace[p][i].raised

\* A get found the row and not the blob.
C9_Witness ==
    /\ Returned(1, "get") /\ result[1].kind = "IntegrityError"
    /\ op[1].id \in DOMAIN rows
    /\ trace[1][1].outcome = "FileNotFoundError"

\* C10 (blob write fails): a create whose blob write fails ends with
\* StorageUnavailable, inserts no row for the generated id, and leaves the
\* table as it was before the call.
C10_PutFailure ==
    [][\A p \in Procs :
         (/\ pc[p] = "idle" /\ Moves(p)
          /\ op'[p].kind = "create"
          /\ minio_client = "None" \/ trace'[p][1].raised # "none") =>
           /\ pc'[p] = "done"
           /\ result'[p].kind = "StorageUnavailable"
           /\ trace'[p] = <<[call |-> "put", key |-> ObjectName(op'[p].id),
                             raised |-> trace'[p][1].raised,
                             outcome |-> trace'[p][1].outcome]>>
           /\ op'[p].id \notin DOMAIN rows'
           /\ rows' = rows]_vars

\* The second create of a run failed at the blob write while the first one's
\* diagram exists.
C10_Witness ==
    /\ Returned(1, "create") /\ result[1].kind = "StorageUnavailable"
    /\ trace[1][1].outcome = "S3Error"
    /\ DOMAIN rows = {1}

\* Request p's blob delete of a deleteDiagram raises.
C11_BlobDeleteRaises(p) ==
    /\ pc[p] = "d_blob" /\ Moves(p)
    /\ trace'[p][1].call = "delete" /\ trace'[p][1].outcome # "ok"

\* C11 (delete aborts): when the blob delete of a deleteDiagram raises, the
\* operation ends with StorageUnavailable and no row delete, the row is stored
\* as it was, the blob the row references is present, and a retry whose two
\* store calls answer would succeed.
C11_DeleteAborts ==
    [][\A p \in Procs :
         C11_BlobDeleteRaises(p) =>
           LET id == op[p].id
               key == KeyOfUrl(rows'[id].payload_url)
           IN /\ pc'[p] = "done"
              /\ result'[p].kind = "StorageUnavailable"
              /\ Len(trace'[p]) = 1
              /\ id \in DOMAIN rows' /\ rows' = rows
              /\ key \in DOMAIN blobs'
              /\ delete_diagram_payload(minio_client', blobs', key,
                                        "none").outcome = "ok"]_vars

\* Request p's blob overwrite of an updateDiagram raises.
C12_OverwriteRaises(p) ==
    /\ pc[p] = "u_put" /\ Moves(p)
    /\ trace'[p][1].call = "put" /\ trace'[p][1].outcome # "ok"

\* C12 (update aborts): when the blob overwrite of an updateDiagram raises, the
\* operation ends with StorageUnavailable and no commit, the row is stored as
\* it was (name, location and updated_at, also when a name was given), and the
\* row references a blob that is present.
C12_UpdateAborts ==
    [][\A p \in Procs :
         C12_OverwriteRaises(p) =>
           LET id == op[p].id
           IN /\ pc'[p] = "done"
              /\ result'[p].kind = "StorageUnavailable"
              /\ Len(trace'[p]) = 1
              /\ id \in DOMAIN rows' /\ rows' = rows
              /\ KeyOfUrl(rows'[id].payload_url) \in DOMAIN blobs']_vars

\* C13 (timestamps): the record a successful create returns has created_at
\* equal to updated_at, and the record a successful update returns has
\* updated_at strictly greater than created_at.
C13_Timestamps ==
    \A p \in Procs :
      /\ (Returned(p, "create") /\ result[p].kind = "Ok") =>
             result[p].body[1].created_at = result[p].body[1].updated_at
      /\ (Returned(p, "update") /\ result[p].kind = "Ok") =>
             result[p].body[1].updated_at > result[p].body[1].created_at

\* C14 (key derivation and ownership): every row's object key is its id
\* followed by ".json" and its location is "s3://", the bucket, "/", that key;
\* every blob call of a request on an id (put, get or delete) uses that id's
\* key; and no two rows have the same key.
C14_KeyOwnership ==
    /\ \A id \in DOMAIN rows :
         LET key == KeyOfUrl(rows[id].payload_url)
         IN /\ rows[id].id = id
            /\ key = <<id, ".json">>
            /\ rows[id].payload_url = <<"s3://", MINIO_BUCKET_NAME, "/", key>>
    /\ \A i, j \in DOMAIN rows :
         i # j => KeyOfUrl(rows[i].payload_url) # KeyOfUrl(rows[j].payload_url)
    /\ \A p \in Procs : \A n \in DOMAIN trace[p] :
         trace[p][n].call \in {"put", "get", "delete"} =>
             trace[p][n].key = <<op[p].id, ".json">>

\* Two diagrams exist and a get of the second read the key its create wrote.
C14_Witness ==
    /\ Returned(1, "get") /\ result[1].kind = "Ok"
    /\ DOMAIN rows = {1, 2}
    /\ op[1].id = 2
    /\ last[2].by = "create"
    /\ trace[1][1].key = last[2].key

\* Worker p's request frame.
Frame(p) == <<pc[p], op[p], row[p], ret[p], result[p], trace[p]>>

\* Row a and the blob under a's key are after the step what they were before.
Untouched(a) ==
    /\ (a \in DOMAIN rows') = (a \in DOMAIN rows)
    /\ a \in DOMAIN rows => rows'[a] = rows[a]
    /\ (ObjectName(a) \in DOMAIN blobs') = (ObjectName(a) \in DOMAIN blobs)
    /\ ObjectName(a) \in DOMAIN blobs =>
           blobs'[ObjectName(a)] = blobs[ObjectName(a)]

\* C15 (isolation across identifiers): under any interleaving of two requests,
\* each sub-step of a request on one identifier leaves the row and the blob of
\* every other identifier, and the frame (arguments, fetched row, store calls
\* and result) of the other worker's request, exactly as they were; so a
\* request on A meets the same record and blob, and returns the same, whether
\* or not a request on B runs between its sub-steps.
C15_Isolation ==
    [][\A p \in Procs : \A a \in Ids :
         (/\ Moves(p)
          /\ op'[p].kind \in {"create", "get", "update", "delete"}
          /\ op'[p].id # a) =>
           /\ Untouched(a)
           /\ \A q \in Procs \ {p} : Frame(q)' = Frame(q)]_vars

\* An update of diagram 1 has overwritten its blob and a delete of diagram 2
\* has removed its blob, both requests in flight at once.
C15_Witness ==
    /\ pc[1] = "u_commit" /\ op[1].id = 1 /\ op[1].payload # None
    /\ pc[2] = "d_row" /\ op[2].id = 2
    /\ ObjectName(2) \notin DOMAIN blobs
    /\ blobs[ObjectName(1)] = json_dumps(The(op[1].payload))
    /\ blobs[ObjectName(1)] # json_dumps(<< <<"type", "class">> >>)

\* C16 (one identifier, update and delete): once an update carrying a payload
\* and a delete of the same identifier have both finished, in any
\* interleaving, and the delete returned success, neither the record nor its
\* blob exists, and the update did not succeed if its commit found no row.
C16_Serialized ==
    \A u, d \in Procs :
      (/\ Returned(u, "update") /\ op[u].payload # None
       /\ Returned(d, "delete") /\ op[d].id = op[u].id
       /\ result[d].kind = "Ok") =>
        /\ op[d].id \notin DOMAIN rows
        /\ ObjectName(op[d].id) \notin DOMAIN blobs
        /\ result[u].kind = "Ok" =>
               \A n \in DOMAIN trace[u] : trace[u][n].raised = "none"

\* The ids given to the creates of the two workers.
Creating == {op[p].id : p \in {q \in Procs : op[q].kind = "create"}}

\* The keys a put of the two workers' requests has returned from.
PutsDone ==
    UNION {{trace[p][n].key :
              n \in {m \in DOMAIN trace[p] :
                       /\ trace[p][m].call = "put"
                       /\ trace[p][m].raised = "none"
                       /\ trace[p][m].outcome = "ok"}} : p \in Procs}

\* The keys a blob write has completed on: those of the diagrams stored
\* before the two requests began, and those the requests have put.
Written ==
    {ObjectName(i) : i \in (1..(nextId - 1)) \ Creating} \cup PutsDone

\* The step that inserts a row is taken by a create whose one earlier call,
\* the put at the row's key, returned, and the blob is in the bucket.
C18_InsertAfterPut ==
    \A id \in DOMAIN rows' \ DOMAIN rows :
      \E p \in Procs :
        LET key == KeyOfUrl(rows'[id].payload_url)
        IN /\ pc[p] = "c_insert" /\ op[p].id = id
           /\ trace[p] = <<[call |-> "put", key |-> key,
                            raised |-> "none", outcome |-> "ok"]>>
           /\ key \in DOMAIN blobs
           /\ blobs[key] = json_dumps(The(op[p].payload))

\* The locations of the rows a get or a list of worker p has seen so far.
ObservedUrls(p) ==
    IF op[p].kind \in {"get", "list"}
    THEN {r.payload_url : r \in row[p]} \cup
         {result[p].body[i].payload_url : i \in DOMAIN result[p].body}
    ELSE {}

\* C18 (create ordering): a create inserts its row only after its put at the
\* row's key has returned, so in every state of every interleaving each row
\* in the table, and each row a get or a list has seen, references a key on
\* which a blob write has completed.
C18_CreateOrdering ==
    /\ [][C18_InsertAfterPut]_vars
    /\ [](\A id \in DOMAIN rows : KeyOfUrl(rows[id].payload_url) \in Written)
    /\ [](\A p \in Procs : \A url \in ObservedUrls(p) : KeyOfUrl(url) \in Written)

\* A create has written its blob and not yet inserted its row, and a get of
\* the same id by the other worker has answered NotFound.
C18_Witness ==
    /\ pc[1] = "c_insert"
    /\ ObjectName(op[1].id) \in DOMAIN blobs
    /\ op[1].id \notin DOMAIN rows
    /\ Returned(2, "get") /\ op[2].id = op[1].id
    /\ result[2].kind = "NotFound"

\* The downstream answer of the request the gateway has just served was a
\* success.
DownstreamOk == gw.response.kind = "response" /\ gw.response.status < 400

\* C17 (gateway pass-through): a diagram request served by the gateway has
\* issued exactly one downstream request, with the method and the path of the
\* request received; a create forwarded the body's name and payload as they
\* came; and when the downstream answer is a success the gateway's response
\* carries the downstream JSON.
C17_PassThrough ==
    gw.pc = "done" =>
      /\ Len(gw.sent) = 1
      /\ gw.sent[1].method = gw.request.method
      /\ gw.sent[1].url = <<DIAGRAM_SERVICE_URL, gw.request.path>>
      /\ gw.handler = "create_diagram" =>
           /\ gw.sent[1].json.name = gw.request.body.name
           /\ gw.sent[1].json.payload = gw.request.body.payload
      /\ DownstreamOk => gw.out.json = gw.response.json

\* The rows that reference key k.
Owners_of(k) == {id \in DOMAIN rows : KeyOfUrl(rows[id].payload_url) = k}

\* C19 (no orphaned blobs): with requests served one at a time, none in
\* flight and no compensating delete having failed, every blob in the bucket
\* is referenced by exactly one row and every row's blob is in the bucket.
C19_NoOrphans ==
    ((\A p \in Procs : pc[p] \in {"idle", "done"}) /\ orphaned = {}) =>
        /\ \A k \in DOMAIN blobs : Cardinality(Owners_of(k)) = 1
        /\ \A id \in DOMAIN rows :
             KeyOfUrl(rows[id].payload_url) \in DOMAIN blobs

\* C20 (immutable fields): no step changes the id, the owner_id or the
\* created_at of a row that stays in the table; every sub-step of an update,
\* failed or not, leaves the table's ids, every other row and the updated
\* row's location as they were; and the record a successful update returns
\* carries the row's id, owner_id and created_at from before the call.
C20_ImmutableFields ==
    [][/\ \A id \in DOMAIN rows \cap DOMAIN rows' :
            /\ rows'[id].id = rows[id].id
            /\ rows'[id].owner_id = rows[id].owner_id
            /\ rows'[id].created_at = rows[id].created_at
       /\ \A p \in Procs :
            (Moves(p) /\ op'[p].kind = "update") =>
              /\ DOMAIN rows' = DOMAIN rows
              /\ \A id \in DOMAIN rows :
                   /\ id # op'[p].id => rows'[id] = rows[id]
                   /\ rows'[id].payload_url = rows[id].payload_url
              /\ (pc'[p] = "done" /\ result'[p].kind = "Ok") =>
                   LET r == rows[op'[p].id]
                       b == result'[p].body[1]
                   IN /\ b.id = r.id
                      /\ b.owner_id = r.owner_id
                      /\ b.created_at = r.created_at]_vars

\* An update that renamed the second owner's diagram returned: the row has
\* the new name and a later updated_at, and the owner and created_at it had.
C20_Witness ==
    /\ Returned(1, "update") /\ result[1].kind = "Ok"
    /\ op[1].name = Some("n2")
    /\ rows[op[1].id].name = "n2"
    /\ rows[op[1].id].owner_id = "u2"
    /\ rows[op[1].id].created_at = 0
    /\ rows[op[1].id].updated_at = 1

\* A sub-step of an update that gives no payload writes no blob: the bucket
\* stays as it was and the request's calls hold no put.
C21_NameOnlyStep(p) ==
    (Moves(p) /\ op'[p].kind = "update" /\ op'[p].payload = None) =>
        /\ blobs' = blobs
        /\ \A n \in DOMAIN trace'[p] : trace'[p][n].call # "put"

\* A sub-step of an update that gives no name leaves the row's name.
C21_PayloadOnlyStep(p) ==
    (Moves(p) /\ op'[p].kind = "update" /\ op'[p].name = None
        /\ op'[p].id \in DOMAIN rows /\ op'[p].id \in DOMAIN rows') =>
        rows'[op'[p].id].name = rows[op'[p].id].name

\* The record a successful update returns has the name the row now has and
\* the payload the blob under the row's key now holds.
C21_Hydrated(p) ==
    (Returned(p, "update") /\ result[p].kind = "Ok") =>
        LET id == op[p].id
            key == KeyOfUrl(rows[id].payload_url)
        IN /\ result[p].body[1].name = rows[id].name
           /\ key \in DOMAIN blobs
           /\ result[p].body[1].payload = json_loads(blobs[key])
           /\ op[p].name # None => rows[id].name = The(op[p].name)
           /\ op[p].payload # None =>
                  result[p].body[1].payload = The(op[p].payload)

\* C21 (update frame): an update that gives only a name writes no blob and
\* leaves the bucket as it was, one that gives only a payload leaves the name
\* as it was, and the record a successful update returns carries the current
\* name and the current payload of the diagram.
C21_UpdateFrame ==
    /\ [][\A p \in Procs : C21_NameOnlyStep(p) /\ C21_PayloadOnlyStep(p)]_vars
    /\ [](\A p \in Procs : C21_Hydrated(p))

\* A rename with no payload returned the new name with the two-item payload
\* stored for the diagram, fetched by one get and no other blob call.
C21_Witness ==
    /\ Returned(1, "update") /\ result[1].kind = "Ok"
    /\ op[1].payload = None /\ op[1].name = Some("n2")
    /\ result[1].body[1].name = "n2"
    /\ BlobCalls(1) = <<[call |-> "get",
                         key |-> KeyOfUrl(rows[op[1].id].payload_url),
                         raised |-> "none", outcome |-> "ok"]>>
    /\ result[1].body[1].payload =
           << <<"type", "sequence">>, <<"steps", "a">> >>
    /\ rows[op[1].id].created_at < rows[op[1].id].updated_at

\* C22 (reads change nothing): every sub-step of a list or a get leaves the
\* table and the bucket exactly as they were; a list makes no blob-store
\* call, and a get makes at most one, which is a get.
C22_ReadsChangeNothing ==
    [][\A p \in Procs :
         (Moves(p) /\ op'[p].kind \in {"get", "list"}) =>
           /\ rows' = rows
           /\ blobs' = blobs
           /\ op'[p].kind = "list" => trace'[p] = <<>>
           /\ op'[p].kind = "get" =>
                /\ Len(trace'[p]) <= 1
                /\ \A n \in DOMAIN trace'[p] : trace'[p][n].call = "get"]_vars

\* A get of one of two stored diagrams returned its payload, and both rows
\* and both blobs are in place.
C22_Witness ==
    /\ Returned(1, "get") /\ result[1].kind = "Ok"
    /\ Len(trace[1]) = 1
    /\ DOMAIN rows = {1, 2}
    /\ DOMAIN blobs = {ObjectName(1), ObjectName(2)}
    /\ result[1].body[1].payload = json_loads(blobs[trace[1][1].key])

\* The key a delete request is about to remove.
C23_Key(p) == KeyOfUrl(The(row[p]).payload_url)

\* A delete whose blob is already gone can go on to the row, and its blob
\* step leaves both stores as they are.
C23_Tolerated(p) ==
    (pc[p] = "d_blob" /\ C23_Key(p) \notin DOMAIN blobs) =>
        ENABLED (DelBlob(p) /\ pc'[p] = "d_row")

C23_AbsentBlobStep(p) ==
    (pc[p] = "d_blob" /\ Moves(p) /\ C23_Key(p) \notin DOMAIN blobs) =>
        blobs' = blobs /\ rows' = rows

\* From the row step the delete can succeed, and when it does the row is gone.
C23_RowDeletable(p) ==
    pc[p] = "d_row" => ENABLED (DelRow(p) /\ result'[p].kind = "Ok")

C23_RowStep(p) ==
    (pc[p] = "d_row" /\ Moves(p) /\ result'[p].kind = "Ok") =>
        op[p].id \notin DOMAIN rows' /\ blobs' = blobs

\* Through the blob client, with the store answering: removing a key raises
\* nothing, removing an absent key changes nothing, and removing twice
\* leaves what removing once leaves.
C23_Idempotent ==
    \A id \in Ids :
        LET k == ObjectName(id)
            once == delete_diagram_payload("client", blobs, k, "none")
            twice == delete_diagram_payload("client", once.store, k, "none")
        IN /\ once.outcome = "ok" /\ once.raised = "none"
           /\ twice.outcome = "ok" /\ twice.raised = "none"
           /\ twice.store = once.store
           /\ k \notin DOMAIN once.store
           /\ k \notin DOMAIN blobs => once.store = blobs

\* C23 (deleting tolerates an already-absent blob): a delete of a record
\* whose blob is no longer in the store takes the blob deletion as done,
\* deletes the row and returns success; deleting an absent key through the
\* blob client raises nothing and leaves the store unchanged, so deleting
\* twice equals deleting once.
C23_DeleteTolerant ==
    /\ [](\A p \in Procs : C23_Tolerated(p) /\ C23_RowDeletable(p))
    /\ [][\A p \in Procs : C23_AbsentBlobStep(p) /\ C23_RowStep(p)]_vars
    /\ []C23_Idempotent

\* Two deletes of the same diagram both removed its key without error and
\* both returned success: the later of the two found the blob already gone.
C23_Witness ==
    /\ \A p \in Procs :
         /\ Returned(p, "delete") /\ op[p].id = 1 /\ result[p].kind = "Ok"
         /\ Len(trace[p]) = 2
         /\ trace[p][1].call = "delete" /\ trace[p][1].outcome = "ok"
         /\ trace[p][1].key = ObjectName(1)
    /\ 1 \notin DOMAIN rows
    /\ ObjectName(1) \notin DOMAIN blobs
    /\ 2 \in DOMAIN rows /\ ObjectName(2) \in DOMAIN blobs

\* C24 (gateway error relay): when the diagram service answers a forwarded
\* request with a status of 400 or more, the gateway's response has that
\* status and the downstream body as its detail; when the downstream request
\* could not be completed the gateway's response has status 503; in both
\* cases the request was sent once.
C24_ErrorRelay ==
    gw.pc = "done" =>
      /\ (gw.response.kind = "response" /\ gw.response.status >= 400) =>
           /\ gw.out.status_code = gw.response.status
           /\ gw.out.json = [detail |-> gw.response.json]
           /\ Len(gw.sent) = 1
      /\ gw.response.kind = "text" =>
           /\ gw.out.status_code = gw.response.status
           /\ gw.out.json = [detail |-> gw.response.text]
           /\ Len(gw.sent) = 1
      /\ gw.response.kind = "RequestError" =>
           /\ gw.out.status_code = 503
           /\ Len(gw.sent) = 1

====
